---- MODULE Spec2Model ----
(***************************************************************************)
(* Model of pulumi/__main__.py: a Pulumi program that declares the AWS     *)
(* infrastructure of a Rails application (VPC, subnets, routing, security  *)
(* group, ECR repository, ECS cluster / task definition / service and an   *)
(* Application Load Balancer) and exports two stack outputs.               *)
(*                                                                         *)
(* The program is a straight line of 16 resource declarations followed by  *)
(* 2 exports.  Each declaration registers a resource with the engine; the  *)
(* engine creates a registered resource once every resource whose          *)
(* attribute it takes as an input has been created, in any order and       *)
(* concurrently with the rest of the program.  Attributes (Outputs) are    *)
(* known only after the resource that owns them is created.                *)
(***************************************************************************)
EXTENDS Naturals, Sequences, FiniteSets, TLC

VARIABLES
    run,                    \* number of the current run of the program
    pc,                     \* index of the next statement of the program
    declared,               \* resources registered so far, in program order
    exports,                \* stack outputs registered so far, in program order
    prevGraph,              \* what the previous run declared and exported
    created,                \* the stack: each created resource, by logical name
    outputs,                \* provider-assigned attributes: repository_url, dns_name
    image,                  \* value of repository_url.apply(...), once resolved
    container_definitions,  \* value of Output.json_dumps(...), once resolved
    placed,                 \* capacity provider of each task the service started
    req                     \* the HTTP request in flight

vars == <<run, pc, declared, exports, prevGraph, created, outputs, image,
          container_definitions, placed, req>>

\* An Output whose value is not known yet.
Unknown == "<unknown>"

\* Number of runs of the program that are explored.
MaxRuns == 2

-----------------------------------------------------------------------------
(* Helpers for the resource records.                                       *)

\* A reference to an attribute of another resource, passed as input `arg`.
Ref(arg, res, attr) == [arg |-> arg, res |-> res, attr |-> attr]

\* a.b.c.d as a number (TLC's integers are 32 bits wide: a < 128 here).
IP(a, b, c, d) == ((a * 256 + b) * 256 + c) * 256 + d

\* The CIDR block a.b.c.d/len.
Cidr(a, b, c, d, len) == [base |-> IP(a, b, c, d), len |-> len]

-----------------------------------------------------------------------------
(* The declarations of the program, in program order.                      *)

vpc ==
    [name |-> "myapp-vpc", type |-> "ec2.Vpc", refs |-> {},
     args |-> [cidr_block |-> Cidr(10, 0, 0, 0, 16),
               enable_dns_hostnames |-> TRUE,
               enable_dns_support |-> TRUE]]

public_subnet_1 ==
    [name |-> "public-subnet-1", type |-> "ec2.Subnet",
     refs |-> {Ref("vpc_id", "myapp-vpc", "id")},
     args |-> [cidr_block |-> Cidr(10, 0, 1, 0, 24),
               availability_zone |-> "us-east-1a",
               map_public_ip_on_launch |-> TRUE]]

public_subnet_2 ==
    [name |-> "public-subnet-2", type |-> "ec2.Subnet",
     refs |-> {Ref("vpc_id", "myapp-vpc", "id")},
     args |-> [cidr_block |-> Cidr(10, 0, 2, 0, 24),
               availability_zone |-> "us-east-1b",
               map_public_ip_on_launch |-> TRUE]]

internet_gateway ==
    [name |-> "myapp-igw", type |-> "ec2.InternetGateway",
     refs |-> {Ref("vpc_id", "myapp-vpc", "id")},
     args |-> [none |-> TRUE]]

route_table ==
    [name |-> "myapp-rt", type |-> "ec2.RouteTable",
     refs |-> {Ref("vpc_id", "myapp-vpc", "id"),
               Ref("routes.gateway_id", "myapp-igw", "id")},
     args |-> [routes |-> <<[cidr_block |-> Cidr(0, 0, 0, 0, 0)]>>]]

rta_1 ==
    [name |-> "rta-1", type |-> "ec2.RouteTableAssociation",
     refs |-> {Ref("subnet_id", "public-subnet-1", "id"),
               Ref("route_table_id", "myapp-rt", "id")},
     args |-> [none |-> TRUE]]

\* rta-2 written as a copy of rta-1 with the logical name left unchanged.
rta_2_copied_name ==
    [name |-> "rta-1", type |-> "ec2.RouteTableAssociation",
     refs |-> {Ref("subnet_id", "public-subnet-2", "id"),
               Ref("route_table_id", "myapp-rt", "id")},
     args |-> [none |-> TRUE]]

rta_2 ==
    [name |-> "rta-2", type |-> "ec2.RouteTableAssociation",
     refs |-> {Ref("subnet_id", "public-subnet-2", "id"),
               Ref("route_table_id", "myapp-rt", "id")},
     args |-> [none |-> TRUE]]

security_group ==
    [name |-> "myapp-sg", type |-> "ec2.SecurityGroup",
     refs |-> {Ref("vpc_id", "myapp-vpc", "id")},
     args |-> [description |-> "Allow inbound traffic for the Rails app",
               ingress |-> <<[protocol |-> "tcp", from_port |-> 80, to_port |-> 80,
                              cidr_blocks |-> <<Cidr(0, 0, 0, 0, 0)>>]>>,
               egress |-> <<[protocol |-> "-1", from_port |-> 0, to_port |-> 0,
                             cidr_blocks |-> <<Cidr(0, 0, 0, 0, 0)>>]>>]]

ecr_repo ==
    [name |-> "myapp-repo", type |-> "ecr.Repository", refs |-> {},
     args |-> [name |-> "myapp-repo"]]

cluster ==
    [name |-> "myapp-cluster", type |-> "ecs.Cluster", refs |-> {},
     args |-> [name |-> "myapp-cluster"]]

role ==
    [name |-> "myapp-task-exec-role", type |-> "iam.Role", refs |-> {},
     args |-> [principal |-> "ecs-tasks.amazonaws.com",
               action |-> "sts:AssumeRole"]]

task_definition ==
    [name |-> "myapp-task", type |-> "ecs.TaskDefinition",
     refs |-> {Ref("execution_role_arn", "myapp-task-exec-role", "arn"),
               Ref("container_definitions", "myapp-repo", "repository_url")},
     args |-> [family |-> "myapp-task-family",
               cpu |-> "256",
               memory |-> "512",
               network_mode |-> "awsvpc",
               requires_compatibilities |-> <<"FARGATE">>]]

alb ==
    [name |-> "myapp-alb", type |-> "lb.LoadBalancer",
     refs |-> {Ref("security_groups", "myapp-sg", "id"),
               Ref("subnets", "public-subnet-1", "id"),
               Ref("subnets", "public-subnet-2", "id")},
     args |-> [load_balancer_type |-> "application",
               security_groups |-> <<"myapp-sg">>,
               subnets |-> <<"public-subnet-1", "public-subnet-2">>]]

target_group ==
    [name |-> "myapp-tg", type |-> "lb.TargetGroup",
     refs |-> {Ref("vpc_id", "myapp-vpc", "id")},
     args |-> [port |-> 80, protocol |-> "HTTP", target_type |-> "ip"]]

listener ==
    [name |-> "myapp-listener", type |-> "lb.Listener",
     refs |-> {Ref("load_balancer_arn", "myapp-alb", "arn"),
               Ref("default_actions.target_group_arn", "myapp-tg", "arn")},
     args |-> [port |-> 80,
               load_balancer |-> "myapp-alb",
               default_actions |-> <<[type |-> "forward",
                                      target_group |-> "myapp-tg"]>>]]

\* The service given the cluster's name as a literal instead of cluster.arn.
service_literal_cluster ==
    [name |-> "myapp-service", type |-> "ecs.Service",
     refs |-> {Ref("task_definition", "myapp-task", "arn"),
               Ref("network_configuration.subnets", "public-subnet-1", "id"),
               Ref("network_configuration.subnets", "public-subnet-2", "id"),
               Ref("network_configuration.security_groups", "myapp-sg", "id"),
               Ref("load_balancers.target_group_arn", "myapp-tg", "arn")},
     args |-> [desired_count |-> 1,
               task_definition |-> "myapp-task",
               network_configuration |->
                   [assign_public_ip |-> TRUE,
                    subnets |-> <<"public-subnet-1", "public-subnet-2">>,
                    security_groups |-> <<"myapp-sg">>],
               load_balancers |-> <<[target_group |-> "myapp-tg",
                                     container_name |-> "myapp",
                                     container_port |-> 3000]>>,
               capacity_provider_strategies |->
                   <<[capacity_provider |-> "FARGATE_SPOT", weight |-> 1]>>]]

\* The service with an on-demand provider beside FARGATE_SPOT.
service_with_on_demand ==
    [name |-> "myapp-service", type |-> "ecs.Service",
     refs |-> {Ref("cluster", "myapp-cluster", "arn"),
               Ref("task_definition", "myapp-task", "arn"),
               Ref("network_configuration.subnets", "public-subnet-1", "id"),
               Ref("network_configuration.subnets", "public-subnet-2", "id"),
               Ref("network_configuration.security_groups", "myapp-sg", "id"),
               Ref("load_balancers.target_group_arn", "myapp-tg", "arn")},
     args |-> [desired_count |-> 1,
               task_definition |-> "myapp-task",
               network_configuration |->
                   [assign_public_ip |-> TRUE,
                    subnets |-> <<"public-subnet-1", "public-subnet-2">>,
                    security_groups |-> <<"myapp-sg">>],
               load_balancers |-> <<[target_group |-> "myapp-tg",
                                     container_name |-> "myapp",
                                     container_port |-> 3000]>>,
               capacity_provider_strategies |->
                   <<[capacity_provider |-> "FARGATE_SPOT", weight |-> 1],
                     [capacity_provider |-> "FARGATE", weight |-> 1]>>]]

service ==
    [name |-> "myapp-service", type |-> "ecs.Service",
     refs |-> {Ref("cluster", "myapp-cluster", "arn"),
               Ref("task_definition", "myapp-task", "arn"),
               Ref("network_configuration.subnets", "public-subnet-1", "id"),
               Ref("network_configuration.subnets", "public-subnet-2", "id"),
               Ref("network_configuration.security_groups", "myapp-sg", "id"),
               Ref("load_balancers.target_group_arn", "myapp-tg", "arn")},
     args |-> [desired_count |-> 1,
               task_definition |-> "myapp-task",
               network_configuration |->
                   [assign_public_ip |-> TRUE,
                    subnets |-> <<"public-subnet-1", "public-subnet-2">>,
                    security_groups |-> <<"myapp-sg">>],
               load_balancers |-> <<[target_group |-> "myapp-tg",
                                     container_name |-> "myapp",
                                     container_port |-> 3000]>>,
               capacity_provider_strategies |->
                   <<[capacity_provider |-> "FARGATE_SPOT", weight |-> 1]>>]]

\* The declarations with the listener written above the target group.
Declarations_listener_first ==
    <<vpc, public_subnet_1, public_subnet_2, internet_gateway, route_table,
      rta_1, rta_2, security_group, ecr_repo, cluster, role, task_definition,
      alb, listener, target_group, service>>

\* The resource declarations of the program, in textual order.
Declarations ==
    <<vpc, public_subnet_1, public_subnet_2, internet_gateway, route_table,
      rta_1, rta_2, security_group, ecr_repo, cluster, role, task_definition,
      alb, target_group, listener, service>>

\* The exports with the load balancer's name exported under both calls' name.
Exports_same_name ==
    <<[name |-> "alb_dns_name", res |-> "myapp-repo", attr |-> "repository_url"],
      [name |-> "alb_dns_name", res |-> "myapp-alb", attr |-> "dns_name"]>>

\* The pulumi.export calls of the program, in textual order.
Exports ==
    <<[name |-> "ecr_repo_url", res |-> "myapp-repo", attr |-> "repository_url"],
      [name |-> "alb_dns_name", res |-> "myapp-alb", attr |-> "dns_name"]>>

NumDeclarations == Len(Declarations)
NumStatements == Len(Declarations) + Len(Exports)

\* pc after the last statement.
Done == NumStatements + 1

-----------------------------------------------------------------------------
(* State of a run.                                                          *)

DeclaredNames == {declared[i].name : i \in 1..Len(declared)}

\* The declaration registered under logical name n.
Resource(n) == declared[CHOOSE i \in 1..Len(declared) : declared[i].name = n]

\* The resources whose attributes resource r takes as inputs.
Deps(r) == {x.res : x \in r.refs}

\* The attributes the provider assigns and the program reads as values.
OutputAttrs == {<<"myapp-repo", "repository_url">>, <<"myapp-alb", "dns_name">>}

\* Values the provider may assign to them.
RepositoryUrls ==
    {"774287600271.dkr.ecr.us-east-1.amazonaws.com/myapp-repo",
     "111111111111.dkr.ecr.us-east-1.amazonaws.com/myapp-repo"}

DnsNames == {"myapp-alb-1a2b3c.us-east-1.elb.amazonaws.com"}

Assignable(k) == IF k[2] = "repository_url" THEN RepositoryUrls ELSE DnsNames

\* Logical names of the resources the engine has created.
CreatedNames == DOMAIN created

AllCreated == CreatedNames = {Declarations[i].name : i \in 1..NumDeclarations}

Init ==
    /\ run = 1
    /\ pc = 1
    /\ declared = <<>>
    /\ exports = <<>>
    /\ prevGraph = [declared |-> <<>>, exports |-> <<>>]
    /\ created = [n \in {} |-> vpc]
    /\ outputs = [k \in OutputAttrs |-> Unknown]
    /\ image = Unknown
    /\ container_definitions = Unknown
    /\ placed = <<>>
    /\ req = [at |-> "none", src |-> 0]

-----------------------------------------------------------------------------
(* The program.                                                             *)

\* A resource constructor call: the resource is registered with the engine.
\* Its inputs are attributes of resources bound earlier in the program.
Declare ==
    /\ pc <= NumDeclarations
    /\ Deps(Declarations[pc]) \subseteq DeclaredNames
    /\ declared' = Append(declared, Declarations[pc])
    /\ pc' = pc + 1
    /\ UNCHANGED <<run, exports, prevGraph, created, outputs, image,
                   container_definitions, placed, req>>

\* pulumi.export(name, output)
Export ==
    /\ pc > NumDeclarations
    /\ pc < Done
    /\ Exports[pc - NumDeclarations].res \in DeclaredNames
    /\ exports' = Append(exports, Exports[pc - NumDeclarations])
    /\ pc' = pc + 1
    /\ UNCHANGED <<run, declared, prevGraph, created, outputs, image,
                   container_definitions, placed, req>>

-----------------------------------------------------------------------------
(* The engine.                                                              *)

\* The engine creates a registered resource once all its inputs are known.
CanCreate(n) ==
    /\ n \in DeclaredNames
    /\ n \notin CreatedNames
    /\ Deps(Resource(n)) \subseteq CreatedNames
    /\ (n = "myapp-task" => container_definitions # Unknown)

Create(n) ==
    /\ CanCreate(n)
    /\ created' = [m \in CreatedNames \cup {n} |->
                       IF m = n THEN Resource(n) ELSE created[m]]
    /\ \E v \in [{k \in OutputAttrs : k[1] = n} -> RepositoryUrls \cup DnsNames] :
          /\ \A k \in DOMAIN v : v[k] \in Assignable(k)
          /\ outputs' = [k \in OutputAttrs |-> IF k \in DOMAIN v THEN v[k] ELSE outputs[k]]
    /\ UNCHANGED <<run, pc, declared, exports, prevGraph, image,
                   container_definitions, placed, req>>

\* The callback with the tag left out.
ImageOf_untagged(url) == url

\* The callback of ecr_repo.repository_url.apply: lambda url: f"{url}:latest"
ImageOf(url) == url \o ":latest"

\* The list handed to pulumi.Output.json_dumps, with the image resolved.
ContainerDefinitions(img) ==
    <<[name |-> "myapp",
       image |-> img,
       portMappings |-> <<[containerPort |-> 3000, hostPort |-> 3000,
                           protocol |-> "tcp"]>>,
       secrets |-> <<[name |-> "DATABASE_URL",
                      valueFrom |-> "arn:aws:ssm:us-east-1:774287600271:parameter/myapp/database_url"]>>]>>

\* json.dumps of a list whose items are rendered already: the items joined
\* by ", " between brackets.
RECURSIVE JsonItems(_)
JsonItems(items) ==
    IF Len(items) = 0 THEN ""
    ELSE IF Len(items) = 1 THEN items[1]
    ELSE items[1] \o ", " \o JsonItems(Tail(items))

JsonList(items) == "[" \o JsonItems(items) \o "]"

JsonString(s) == "\"" \o s \o "\""

JsonPortMapping(m) ==
    "{\"containerPort\": " \o ToString(m.containerPort)
        \o ", \"hostPort\": " \o ToString(m.hostPort)
        \o ", \"protocol\": " \o JsonString(m.protocol) \o "}"

JsonSecret(x) ==
    "{\"name\": " \o JsonString(x.name)
        \o ", \"valueFrom\": " \o JsonString(x.valueFrom) \o "}"

JsonContainer(c) ==
    "{\"name\": " \o JsonString(c.name)
        \o ", \"image\": " \o JsonString(c.image)
        \o ", \"portMappings\": "
        \o JsonList([i \in 1..Len(c.portMappings) |-> JsonPortMapping(c.portMappings[i])])
        \o ", \"secrets\": "
        \o JsonList([i \in 1..Len(c.secrets) |-> JsonSecret(c.secrets[i])]) \o "}"

\* pulumi.Output.json_dumps applied to the container definitions.
json_dumps(defs) == JsonList([i \in 1..Len(defs) |-> JsonContainer(defs[i])])

\* The Output built by .apply resolves once repository_url is known.
ResolveImage ==
    /\ "myapp-task" \in DeclaredNames
    /\ image = Unknown
    /\ outputs[<<"myapp-repo", "repository_url">>] # Unknown
    /\ image' = ImageOf(outputs[<<"myapp-repo", "repository_url">>])
    /\ UNCHANGED <<run, pc, declared, exports, prevGraph, created, outputs,
                   container_definitions, placed, req>>

\* The Output built by json_dumps resolves once every Output in it is known.
ResolveContainerDefinitions ==
    /\ "myapp-task" \in DeclaredNames
    /\ container_definitions = Unknown
    /\ image # Unknown
    /\ container_definitions' = json_dumps(ContainerDefinitions(image))
    /\ UNCHANGED <<run, pc, declared, exports, prevGraph, created, outputs,
                   image, placed, req>>

\* The value of a stack output, once the attribute it exports is known.
StackOutput(i) == outputs[<<exports[i].res, exports[i].attr>>]

\* The program is run again on the same stack: the engine finds every
\* resource it registers already created.
StartRun ==
    /\ pc = Done
    /\ AllCreated
    /\ run < MaxRuns
    /\ run' = run + 1
    /\ pc' = 1
    /\ prevGraph' = [declared |-> declared, exports |-> exports]
    /\ declared' = <<>>
    /\ exports' = <<>>
    /\ image' = Unknown
    /\ container_definitions' = Unknown
    /\ UNCHANGED <<created, outputs, placed, req>>

-----------------------------------------------------------------------------
(* The deployed service: task placement and the path of a request.         *)

\* ECS starts the tasks of the service, each on a capacity provider of the
\* service's strategy that has a positive weight.
PlaceTask ==
    /\ "myapp-service" \in CreatedNames
    /\ Len(placed) < created["myapp-service"].args.desired_count
    /\ \E i \in 1..Len(created["myapp-service"].args.capacity_provider_strategies) :
          LET s == created["myapp-service"].args.capacity_provider_strategies[i]
          IN /\ s.weight > 0
             /\ placed' = Append(placed, s.capacity_provider)
    /\ UNCHANGED <<run, pc, declared, exports, prevGraph, created, outputs,
                   image, container_definitions, req>>

\* Whether addr lies in the CIDR block c.
InCidr(addr, c) ==
    \/ c.len = 0
    \/ addr \div 2^(32 - c.len) = c.base \div 2^(32 - c.len)

\* Whether a security group rule covers the protocol, port and peer address.
\* Protocol "-1" stands for every protocol and every port.
RuleAllows(rule, proto, port, addr) ==
    /\ rule.protocol = "-1" \/ rule.protocol = proto
    /\ rule.protocol = "-1" \/ (rule.from_port <= port /\ port <= rule.to_port)
    /\ \E k \in 1..Len(rule.cidr_blocks) : InCidr(addr, rule.cidr_blocks[k])

\* Traffic into an interface is admitted if an ingress rule of one of the
\* security groups attached to it allows it.
IngressAllowed(sgs, proto, port, src) ==
    \E i \in 1..Len(sgs) : \E j \in 1..Len(created[sgs[i]].args.ingress) :
        RuleAllows(created[sgs[i]].args.ingress[j], proto, port, src)

EgressAllowed(sgs, proto, port, dst) ==
    \E i \in 1..Len(sgs) : \E j \in 1..Len(created[sgs[i]].args.egress) :
        RuleAllows(created[sgs[i]].args.egress[j], proto, port, dst)

\* Addresses a request may come from.
InternetAddrs == {IP(8, 8, 8, 8), IP(100, 20, 3, 4)}

\* Addresses of the load balancer's nodes, one in each of its subnets.
AlbNodeAddrs ==
    {created[created["myapp-alb"].args.subnets[i]].args.cidr_block.base + 10 :
        i \in 1..Len(created["myapp-alb"].args.subnets)}

\* Address of a task of the service, in one of the service's subnets.
TaskAddrs ==
    {created[created["myapp-service"].args.network_configuration.subnets[i]].args.cidr_block.base + 20 :
        i \in 1..Len(created["myapp-service"].args.network_configuration.subnets)}

\* The port the load balancer listens on.
ListenerPort == created["myapp-listener"].args.port

\* The port the service registers for its tasks in the target group.
TargetPort == created["myapp-service"].args.load_balancers[1].container_port

\* A client on the internet sends a request to the load balancer.
SendRequest(src) ==
    /\ req.at = "none"
    /\ "myapp-listener" \in CreatedNames
    /\ Len(placed) > 0
    /\ req' = [at |-> "internet", src |-> src]
    /\ UNCHANGED <<run, pc, declared, exports, prevGraph, created, outputs,
                   image, container_definitions, placed>>

\* Hop internet -> load balancer, on the listener's port.
ReachLoadBalancer ==
    /\ req.at = "internet"
    /\ req' = [req EXCEPT !.at =
                 IF IngressAllowed(created["myapp-alb"].args.security_groups,
                                   "tcp", ListenerPort, req.src)
                 THEN "alb" ELSE "dropped"]
    /\ UNCHANGED <<run, pc, declared, exports, prevGraph, created, outputs,
                   image, container_definitions, placed>>

\* Hop load balancer -> task, on the port registered in the target group.
ReachTask ==
    /\ req.at = "alb"
    /\ \E node \in AlbNodeAddrs : \E task \in TaskAddrs :
          req' = [at |->
                    IF /\ EgressAllowed(created["myapp-alb"].args.security_groups,
                                        "tcp", TargetPort, task)
                       /\ IngressAllowed(
                             created["myapp-service"].args.network_configuration.security_groups,
                             "tcp", TargetPort, node)
                    THEN "task" ELSE "dropped",
                  src |-> req.src]
    /\ UNCHANGED <<run, pc, declared, exports, prevGraph, created, outputs,
                   image, container_definitions, placed>>

\* The request is over: answered by the task, or dropped on the way.
Finish ==
    /\ req.at \in {"task", "dropped"}
    /\ req' = [at |-> "none", src |-> 0]
    /\ UNCHANGED <<run, pc, declared, exports, prevGraph, created, outputs,
                   image, container_definitions, placed>>

-----------------------------------------------------------------------------

Next ==
    \/ Declare
    \/ Export
    \/ \E n \in DeclaredNames : Create(n)
    \/ ResolveImage
    \/ ResolveContainerDefinitions
    \/ StartRun
    \/ PlaceTask
    \/ \E src \in InternetAddrs : SendRequest(src)
    \/ ReachLoadBalancer
    \/ ReachTask
    \/ Finish

Spec == Init /\ [][Next]_vars

\* The program runs to its end and the engine creates whatever it can; how
\* often clients send requests, and whether the program is run again, is
\* left open.
FairSpec ==
    /\ Spec
    /\ WF_vars(Declare)
    /\ WF_vars(Export)
    /\ WF_vars(ResolveImage)
    /\ WF_vars(ResolveContainerDefinitions)
    /\ \A i \in 1..NumDeclarations : WF_vars(Create(Declarations[i].name))

-----------------------------------------------------------------------------
(* Properties.                                                              *)

RepoUrl == outputs[<<"myapp-repo", "repository_url">>]

\* Number of declared resources of type t.
TypeCount(t) == Cardinality({i \in 1..Len(declared) : declared[i].type = t})

\* The resources n depends on, directly or through other resources.
RECURSIVE Closure(_)
Closure(S) ==
    LET T == S \cup UNION {Deps(Resource(m)) \cap DeclaredNames : m \in S}
    IN IF T = S THEN S ELSE Closure(T)

Ancestors(n) == Closure(Deps(Resource(n)) \cap DeclaredNames)

\* C1: a complete run registers exactly two stack outputs, "ecr_repo_url"
\* (the repository_url of "myapp-repo") and "alb_dns_name" (the dns_name of
\* "myapp-alb"), in that order, each once and nothing else; a registered
\* output has the provider's value as soon as its resource is created.
C1_TwoExports ==
    /\ Len(exports) <= 2
    /\ Len(exports) >= 1 =>
          exports[1] = [name |-> "ecr_repo_url", res |-> "myapp-repo",
                        attr |-> "repository_url"]
    /\ Len(exports) >= 2 =>
          exports[2] = [name |-> "alb_dns_name", res |-> "myapp-alb",
                        attr |-> "dns_name"]
    /\ pc = Done => Len(exports) = 2
    /\ \A i \in 1..Len(exports) :
          exports[i].res \in CreatedNames =>
              StackOutput(i) \in Assignable(<<exports[i].res, exports[i].attr>>)

C1_Witness ==
    /\ pc = Done
    /\ Len(exports) = 2
    /\ AllCreated
    /\ StackOutput(1) \in RepositoryUrls
    /\ StackOutput(2) \in DnsNames

\* C2: every run declares the same 16 resources (1 VPC, 2 subnets, 1 internet
\* gateway, 1 route table, 2 route table associations, 1 security group,
\* 1 ECR repository, 1 ECS cluster, 1 IAM role, 1 task definition, 1 load
\* balancer, 1 target group, 1 listener, 1 ECS service), one per statement
\* executed, under pairwise distinct logical names; a later run declares and
\* exports exactly what the run before it did.
C2_FixedGraph ==
    /\ Len(declared) = (IF pc <= 16 THEN pc - 1 ELSE 16)
    /\ \A i, j \in 1..Len(declared) : i # j => declared[i].name # declared[j].name
    /\ pc > 16 =>
          /\ TypeCount("ec2.Vpc") = 1
          /\ TypeCount("ec2.Subnet") = 2
          /\ TypeCount("ec2.InternetGateway") = 1
          /\ TypeCount("ec2.RouteTable") = 1
          /\ TypeCount("ec2.RouteTableAssociation") = 2
          /\ TypeCount("ec2.SecurityGroup") = 1
          /\ TypeCount("ecr.Repository") = 1
          /\ TypeCount("ecs.Cluster") = 1
          /\ TypeCount("iam.Role") = 1
          /\ TypeCount("ecs.TaskDefinition") = 1
          /\ TypeCount("lb.LoadBalancer") = 1
          /\ TypeCount("lb.TargetGroup") = 1
          /\ TypeCount("lb.Listener") = 1
          /\ TypeCount("ecs.Service") = 1
    /\ run > 1 =>
          /\ Len(declared) <= Len(prevGraph.declared)
          /\ declared = SubSeq(prevGraph.declared, 1, Len(declared))
          /\ Len(exports) <= Len(prevGraph.exports)
          /\ exports = SubSeq(prevGraph.exports, 1, Len(exports))
          /\ pc = Done => /\ declared = prevGraph.declared
                          /\ exports = prevGraph.exports

C2_Witness ==
    /\ run = 2
    /\ pc = Done
    /\ Len(declared) = 16
    /\ declared = prevGraph.declared

\* C3, state part: the resolved image is the repository URL followed by
\* ":latest" (the exported ecr_repo_url value plus ":latest"), it is the image
\* of the resolved container definitions, and neither is resolved before
\* "myapp-repo" is created and its repository_url known; the task definition
\* is never in the stack without the repository.
C3_Resolved ==
    /\ image # Unknown =>
          /\ "myapp-repo" \in CreatedNames
          /\ RepoUrl # Unknown
          /\ image = RepoUrl \o ":latest"
          /\ Len(exports) >= 1 => image = StackOutput(1) \o ":latest"
    /\ container_definitions # Unknown =>
          /\ image # Unknown
          /\ container_definitions =
                "[{\"name\": \"myapp\", \"image\": \"" \o RepoUrl \o ":latest\", "
                \o "\"portMappings\": [{\"containerPort\": 3000, \"hostPort\": 3000, "
                \o "\"protocol\": \"tcp\"}], \"secrets\": [{\"name\": \"DATABASE_URL\", "
                \o "\"valueFrom\": \"arn:aws:ssm:us-east-1:774287600271:parameter/myapp/database_url\"}]}]"
    /\ "myapp-task" \in CreatedNames => "myapp-repo" \in CreatedNames

\* C3: the state part always holds, and the step that creates "myapp-task"
\* is taken only with the container definitions resolved and "myapp-repo"
\* created.
C3_LazyImage ==
    /\ []C3_Resolved
    /\ [][("myapp-task" \in CreatedNames' /\ "myapp-task" \notin CreatedNames)
            => /\ container_definitions # Unknown
               /\ "myapp-repo" \in CreatedNames
               /\ RepoUrl # Unknown]_vars

C3_Witness ==
    /\ run = 1
    /\ "myapp-task" \in CreatedNames
    /\ image \in {u \o ":latest" : u \in RepositoryUrls}
    /\ container_definitions # Unknown

\* C4: the textual order of the declarations is a topological order of the
\* reference graph: every resource a declaration refers to is declared
\* strictly earlier, so no declaration ever waits for a later one, and no
\* resource depends on itself through any chain of references.
C4_TopologicalOrder ==
    /\ \A i \in 1..Len(declared) : \A x \in declared[i].refs :
          \E j \in 1..(i - 1) : declared[j].name = x.res
    /\ pc <= NumDeclarations =>
          \A x \in Declarations[pc].refs : x.res \in DeclaredNames
    /\ \A n \in DeclaredNames : n \notin Ancestors(n)

C4_Witness ==
    /\ run = 1
    /\ pc = Done
    /\ Len(declared) = 16
    /\ "myapp-alb" \in Ancestors("myapp-listener")
    /\ "myapp-vpc" \in Ancestors("myapp-service")

\* C5, safety part: no resource is in the stack without every resource it
\* references; while something is left to create, the program or the engine
\* can take a step; the service is created after the cluster, the task
\* definition, the target group, both subnets and the security group.
C5_Safe ==
    /\ \A n \in CreatedNames : Deps(created[n]) \subseteq CreatedNames
    /\ ~AllCreated =>
          \/ ENABLED Declare
          \/ ENABLED Export
          \/ ENABLED ResolveImage
          \/ ENABLED ResolveContainerDefinitions
          \/ \E n \in DeclaredNames : CanCreate(n)
    /\ "myapp-service" \in CreatedNames =>
          {"myapp-cluster", "myapp-task", "myapp-tg", "public-subnet-1",
           "public-subnet-2", "myapp-sg"} \subseteq CreatedNames

\* C5: under a scheduler that creates a resource only after the resources it
\* references, in any order, the safety part holds in every interleaving,
\* and with fairness all 16 resources are eventually created.
C5_Scheduler ==
    /\ []C5_Safe
    /\ <>(AllCreated /\ Cardinality(CreatedNames) = 16)

C5_Witness ==
    /\ run = 1
    /\ AllCreated
    /\ Cardinality(CreatedNames) = 16
    /\ "myapp-service" \in CreatedNames

\* C6: the service "myapp-service" is created only after the listener
\* "myapp-listener" has attached the target group to the load balancer.
C6_ServiceAfterListener ==
    "myapp-service" \in CreatedNames => "myapp-listener" \in CreatedNames

\* C7: every hop of a request from the internet is permitted by an ingress
\* rule of the security group of the hop's destination (internet -> load
\* balancer on the listener port, load balancer -> task on the container
\* port), and the egress rule permits all outbound traffic.
C7_EveryHopPermitted ==
    /\ req.at = "internet" =>
          IngressAllowed(created["myapp-alb"].args.security_groups,
                         "tcp", ListenerPort, req.src)
    /\ req.at = "alb" =>
          \A node \in AlbNodeAddrs :
              IngressAllowed(
                  created["myapp-service"].args.network_configuration.security_groups,
                  "tcp", TargetPort, node)
    /\ req.at # "dropped"
    /\ "myapp-sg" \in CreatedNames =>
          \A proto \in {"tcp", "udp", "icmp"} : \A port \in {0, 80, 443, 3000, 65535} :
              \A dst \in InternetAddrs \cup {IP(10, 0, 1, 20)} :
                  EgressAllowed(<<"myapp-sg">>, proto, port, dst)

\* C8: the service's capacity provider strategy is the single entry
\* FARGATE_SPOT with weight 1 and its desired count is 1, so every task it
\* starts is placed on FARGATE_SPOT; the task definition it runs is
\* compatible with FARGATE and uses network mode "awsvpc", which the
\* service's network configuration requires.
C8_FargateSpot ==
    /\ Len(placed) <= 1
    /\ \A i \in 1..Len(placed) : placed[i] = "FARGATE_SPOT"
    /\ "myapp-service" \in CreatedNames =>
          LET svc == created["myapp-service"]
              td == created[svc.args.task_definition]
          IN /\ svc.args.capacity_provider_strategies =
                    <<[capacity_provider |-> "FARGATE_SPOT", weight |-> 1]>>
             /\ svc.args.desired_count = 1
             /\ \E k \in 1..Len(td.args.requires_compatibilities) :
                    td.args.requires_compatibilities[k] = "FARGATE"
             /\ td.args.network_mode = "awsvpc"
             /\ Len(svc.args.network_configuration.subnets) > 0

C8_Witness ==
    /\ "myapp-service" \in CreatedNames
    /\ Len(placed) = 1
    /\ placed[1] = "FARGATE_SPOT"

====
